---- MODULE Spec2Model ----
(***************************************************************************)
(* pyawstools: S3Client (s3/base_client.py) and S3BucketClient             *)
(* (s3/bucket_client.py).  The model follows one client through its calls  *)
(* _copy_many / copy_many, _download_many, key_exist and move_object.  The *)
(* object store and the per-item functions are the environment: every      *)
(* store call ends in one of the outcomes boto3 can produce.               *)
(***************************************************************************)
EXTENDS Naturals, Sequences, FiniteSets

VARIABLES
    op,        \* the method the caller is in, "idle" between calls
    pc,        \* the caller's position inside that method
    args,      \* the arguments of the call
    i,         \* _copy_many: the loop variable of range(0, len, batch_size)
    batches,   \* the (source_key, dest_key) pairs zipped for each executor, in order
    pools,     \* one entry per ThreadPoolExecutor created: its submitted futures
    yielded,   \* futures of the current executor that as_completed has handed out
    calls,     \* per-item function invocations, in the order workers began them
    log,       \* _copy_many: the (X, Y) of each "Finished batch copy X/Y" line
    storeOps,  \* move_object / key_exist: the calls made on self.s3
    outcome    \* how the call ended: "none", "returned" or "raised", and its value

vars == <<op, pc, args, i, batches, pools, yielded, calls, log, storeOps, outcome>>

----------------------------------------------------------------------------
(* Bounds of the model *)

MaxLen == 3

MaxWorkers == 2

MaxBatch == 3

(* Program constants *)

DefaultBatchSize == 1000

LogDivisor == 1000

----------------------------------------------------------------------------
(* Input domains *)

(* Source lists are prefixes of a list of distinct keys or of a list that   *)
(* repeats a key; destination lists are prefixes of a list of distinct keys. *)
SrcNames == <<"a/1", "a/2", "a/3", "a/4", "a/5", "a/6">>

SrcRepeated == <<"a/1", "a/1", "a/2", "a/1", "a/2", "a/2">>

DstNames == <<"b/1", "b/2", "b/3", "b/4", "b/5", "b/6">>

SrcKeys == {SrcNames[1], SrcNames[2]}

DstKeys == {DstNames[1], DstNames[2]}

SourceLists == {SubSeq(names, 1, m) : names \in {SrcNames, SrcRepeated}, m \in 0..MaxLen}

DestLists == {SubSeq(DstNames, 1, m) : m \in 0..MaxLen}

WorkerLimits == 1..MaxWorkers

BatchSizes == 1..MaxBatch

(* What a per-item function (copy_func, download_func) can do: return True, *)
(* return False (a ClientError caught inside it), or raise.                 *)
ItemOutcomes == {"ok", "false", "exc"}

(* What a call on self.s3 can do: succeed, raise ClientError for a missing  *)
(* key, raise ClientError for another store-side error, or raise an         *)
(* exception that is not a ClientError (botocore's connection errors).      *)
StoreOutcomes == {"ok", "absent", "client_error", "network_error"}

IsClientError(o) == o \in {"absent", "client_error"}

----------------------------------------------------------------------------
(* Python helpers *)

Min(a, b) == IF a <= b THEN a ELSE b

(* Mutation: the slice stops one item early *)
SliceShort(s, lo, hi) == SubSeq(s, lo + 1, Min(hi, Len(s)) - 1)

(* s[lo : hi] with 0 <= lo, hi: the slice is clipped to the list *)
Slice(s, lo, hi) == SubSeq(s, lo + 1, Min(hi, Len(s)))

RECURSIVE ZipFrom(_, _, _)
ZipFrom(a, b, j) ==
    IF j > Len(a) \/ j > Len(b) THEN <<>>
    ELSE <<(<<a[j], b[j]>>)>> \o ZipFrom(a, b, j + 1)

(* zip(a, b): stops at the shorter list *)
Zip(a, b) == ZipFrom(a, b, 1)

(* math.ceil(n / d) for n >= 0, d > 0 *)
MathCeil(n, d) == IF n % d = 0 THEN n \div d ELSE (n \div d) + 1

(* int((i / 1000) + 1) *)
LogX(idx) == (idx \div LogDivisor) + 1

(* Mutation: the loop steps one past the batch *)
RangeNextSkip(idx, step) == idx + step + 1

(* the step of range(0, len, batch_size) *)
RangeNext(idx, step) == idx + step

(* Mutation: only a longer source list is rejected *)
LengthsDifferOneSided(a, b) == Len(a) > Len(b)

LengthsDiffer(a, b) == Len(a) # Len(b)

----------------------------------------------------------------------------
(* The executor *)

Terminal == {"ok", "false", "exc"}

Running(futs) == {k \in DOMAIN futs : futs[k].st = "running"}

Queued(futs) == {k \in DOMAIN futs : futs[k].st = "queued"}

Done(futs) == {k \in DOMAIN futs : futs[k].st \in Terminal}

(* Mutation: work a thread has already taken is not waited for *)
PendingQueuedOnly(futs) == {k \in DOMAIN futs : futs[k].st = "queued"}

(* the futures as_completed still waits for, and the work shutdown(wait=True) joins *)
Pending(futs) == {k \in DOMAIN futs : futs[k].st \notin Terminal}

(* Mutation: one thread more than the limit *)
WorkerFreeOffByOne(futs, limit) == Cardinality({k \in DOMAIN futs : futs[k].st = "running"}) <= limit

(* a worker thread is free to take the next work item *)
WorkerFree(futs, limit) == Cardinality(Running(futs)) < limit

----------------------------------------------------------------------------
(* State after construction: no call in progress *)

NoOutcome == [kind |-> "none", value |-> "None"]

Returned(v) == [kind |-> "returned", value |-> v]

Raised(e) == [kind |-> "raised", value |-> e]

Init ==
    /\ op = "idle"
    /\ pc = "idle"
    /\ args = [none |-> "None"]
    /\ i = 0
    /\ batches = <<>>
    /\ pools = <<>>
    /\ yielded = {}
    /\ calls = <<>>
    /\ log = <<>>
    /\ storeOps = <<>>
    /\ outcome = NoOutcome

Cur == Len(pools)

Futures == pools[Cur]

Batch == batches[Cur]

InCopy == op \in {"_copy_many", "copy_many"}

InBatchOp == InCopy \/ op = "_download_many"

Enter(name, a, at) ==
    /\ op' = name
    /\ args' = a
    /\ pc' = at
    /\ UNCHANGED <<i, batches, pools, yielded, calls, log, storeOps, outcome>>

----------------------------------------------------------------------------
(* S3Client._copy_many and S3BucketClient.copy_many *)

Call__copy_many(src, dst, mw, bs) ==
    /\ pc = "idle"
    /\ Enter("_copy_many",
             [source_keys |-> src, dest_keys |-> dst, max_workers |-> mw, batch_size |-> bs],
             "check")

(* the facade passes no batch_size: _copy_many runs with its default *)
Call_copy_many(src, dst, mw) ==
    /\ pc = "idle"
    /\ Enter("copy_many",
             [source_keys |-> src, dest_keys |-> dst, max_workers |-> mw,
              batch_size |-> DefaultBatchSize],
             "check")

CopyCheck ==
    /\ pc = "check"
    /\ InCopy
    /\ IF LengthsDiffer(args.source_keys, args.dest_keys)
       THEN /\ outcome' = Raised("ValueError")
            /\ pc' = "done"
            /\ i' = i
       ELSE /\ i' = 0
            /\ pc' = "loop"
            /\ outcome' = outcome
    /\ UNCHANGED <<op, args, batches, pools, yielded, calls, log, storeOps>>

(* the head of `for i in range(...)`, the two slices and the new executor *)
CopyLoop ==
    /\ pc = "loop"
    /\ InCopy
    /\ IF i < Len(args.source_keys)
       THEN /\ batches' = Append(batches,
                   Zip(Slice(args.source_keys, i, i + args.batch_size),
                       Slice(args.dest_keys, i, i + args.batch_size)))
            /\ pools' = Append(pools, <<>>)
            /\ yielded' = {}
            /\ pc' = "submit"
            /\ outcome' = outcome
       ELSE /\ pc' = "done"
            /\ outcome' = Returned("None")
            /\ UNCHANGED <<batches, pools, yielded>>
    /\ UNCHANGED <<op, args, i, calls, log, storeOps>>

(* Mutation: future.result() without the handler *)
CopyResultNoCatch(k) == pc' = IF pools[Len(pools)][k].st = "exc" THEN "unwind" ELSE pc

(* try: future.result() except Exception: print(...) *)
CopyResult(k) == pc' = pc

(* as_completed ends when nothing is pending and every finished future was yielded *)
Exhausted == Pending(Futures) = {} /\ Done(Futures) \subseteq yielded

CopyCollect ==
    /\ pc = "collect"
    /\ InCopy
    /\ IF Exhausted
       THEN /\ pc' = "exit"
            /\ yielded' = yielded
       ELSE \E k \in DOMAIN Futures \ yielded :
                /\ Futures[k].st \in Terminal
                /\ yielded' = yielded \cup {k}
                /\ CopyResult(k)
    /\ UNCHANGED <<op, args, i, batches, pools, calls, log, storeOps, outcome>>

(* gc.collect(), the progress line, and the loop's step *)
CopyLog ==
    /\ pc = "log"
    /\ InCopy
    /\ log' = Append(log, <<LogX(i), MathCeil(Len(args.source_keys), args.batch_size)>>)
    /\ i' = RangeNext(i, args.batch_size)
    /\ pc' = "loop"
    /\ UNCHANGED <<op, args, batches, pools, yielded, calls, storeOps, outcome>>

----------------------------------------------------------------------------
(* S3Client._download_many *)

Call__download_many(keys, paths, mw) ==
    /\ pc = "idle"
    /\ Enter("_download_many",
             [source_keys |-> keys, dest_keys |-> paths, max_workers |-> mw],
             "check")

DownloadCheck ==
    /\ pc = "check"
    /\ op = "_download_many"
    /\ IF LengthsDiffer(args.source_keys, args.dest_keys)
       THEN /\ outcome' = Raised("ValueError")
            /\ pc' = "done"
            /\ UNCHANGED <<batches, pools, yielded>>
       ELSE /\ batches' = <<Zip(args.source_keys, args.dest_keys)>>
            /\ pools' = <<(<<>>)>>
            /\ yielded' = {}
            /\ pc' = "submit"
            /\ outcome' = outcome
    /\ UNCHANGED <<op, args, i, calls, log, storeOps>>

(* future.result() with no handler: the task's exception leaves the loop *)
DownloadResult(k) == pc' = IF Futures[k].st = "exc" THEN "unwind" ELSE pc

DownloadCollect ==
    /\ pc = "collect"
    /\ op = "_download_many"
    /\ IF Exhausted
       THEN /\ pc' = "exit"
            /\ yielded' = yielded
       ELSE \E k \in DOMAIN Futures \ yielded :
                /\ Futures[k].st \in Terminal
                /\ yielded' = yielded \cup {k}
                /\ DownloadResult(k)
    /\ UNCHANGED <<op, args, i, batches, pools, calls, log, storeOps, outcome>>

----------------------------------------------------------------------------
(* The executor: submission, the worker threads, and the end of the with block *)

(* for ... in zip(...): futures.append(executor.submit(func, a, b)) *)
Submit ==
    /\ pc = "submit"
    /\ InBatchOp
    /\ IF Len(Futures) < Len(Batch)
       THEN /\ pools' = [pools EXCEPT ![Cur] =
                   Append(@, [src |-> Batch[Len(@) + 1][1],
                              dst |-> Batch[Len(@) + 1][2],
                              st |-> "queued"])]
            /\ pc' = pc
       ELSE /\ pc' = "collect"
            /\ pools' = pools
    /\ UNCHANGED <<op, args, i, batches, yielded, calls, log, storeOps, outcome>>

(* a worker takes the oldest queued work item and calls the per-item function *)
StartTask(p) ==
    /\ InBatchOp
    /\ Queued(pools[p]) # {}
    /\ WorkerFree(pools[p], args.max_workers)
    /\ LET k == CHOOSE x \in Queued(pools[p]) : \A y \in Queued(pools[p]) : x <= y
       IN /\ pools' = [pools EXCEPT ![p][k].st = "running"]
          /\ calls' = Append(calls, <<pools[p][k].src, pools[p][k].dst>>)
    /\ UNCHANGED <<op, pc, args, i, batches, yielded, log, storeOps, outcome>>

(* the per-item function returns True, returns False, or raises *)
FinishTask(p, k, o) ==
    /\ InBatchOp
    /\ pools[p][k].st = "running"
    /\ pools' = [pools EXCEPT ![p][k].st = o]
    /\ UNCHANGED <<op, pc, args, i, batches, yielded, calls, log, storeOps, outcome>>

(* leaving the with block normally: shutdown(wait=True) *)
ExecutorExit ==
    /\ pc = "exit"
    /\ InBatchOp
    /\ Pending(Futures) = {}
    /\ IF InCopy
       THEN /\ pc' = "log"
            /\ outcome' = outcome
       ELSE /\ pc' = "done"
            /\ outcome' = Returned("None")
    /\ UNCHANGED <<op, args, i, batches, pools, yielded, calls, log, storeOps>>

(* leaving the with block on an exception: shutdown(wait=True), then re-raise *)
Unwind ==
    /\ pc = "unwind"
    /\ InBatchOp
    /\ Pending(Futures) = {}
    /\ pc' = "done"
    /\ outcome' = Raised("Exception")
    /\ UNCHANGED <<op, args, i, batches, pools, yielded, calls, log, storeOps>>

----------------------------------------------------------------------------
(* S3BucketClient.key_exist -> S3Client._key_exists *)

Call_key_exist(key) ==
    /\ pc = "idle"
    /\ Enter("key_exist", [s3_path |-> key], "head")

KeyExistsResult(o) ==
    IF o = "ok" THEN Returned("True")
    ELSE IF IsClientError(o) THEN Returned("False")
    ELSE Raised("Exception")

_key_exists(o) ==
    /\ pc = "head"
    /\ op = "key_exist"
    /\ storeOps' = Append(storeOps, <<"head_object", args.s3_path, o>>)
    /\ outcome' = KeyExistsResult(o)
    /\ pc' = "done"
    /\ UNCHANGED <<op, args, i, batches, pools, yielded, calls, log>>

----------------------------------------------------------------------------
(* S3BucketClient.move_object -> S3Client._move_object *)

Call_move_object(s, d) ==
    /\ pc = "idle"
    /\ Enter("move_object", [source_key |-> s, dest_key |-> d], "m_copy")

(* a gateway call: ClientError is caught and turned into False, anything else escapes *)
StoreCall(request, o, next) ==
    /\ storeOps' = Append(storeOps, request \o <<o>>)
    /\ IF o = "ok" \/ IsClientError(o)
       THEN /\ pc' = next
            /\ outcome' = IF next = "done" THEN Returned("None") ELSE outcome
       ELSE /\ pc' = "done"
            /\ outcome' = Raised("Exception")
    /\ UNCHANGED <<op, args, i, batches, pools, yielded, calls, log>>

(* _move_object: self._copy_object(...) *)
MoveCopy(o) ==
    /\ pc = "m_copy"
    /\ op = "move_object"
    /\ StoreCall(<<"copy_object", args.source_key, args.dest_key>>, o, "m_delete")

(* _move_object: self._delete_object(...); it runs whatever _copy_object   *)
(* returned.  Deleting a missing key is no error on the store.             *)
MoveDelete(o) ==
    /\ pc = "m_delete"
    /\ op = "move_object"
    /\ o # "absent"
    /\ StoreCall(<<"delete_object", args.source_key>>, o, "m_delete2")

(* move_object: self.delete_object(source_key) *)
MoveDeleteAgain(o) ==
    /\ pc = "m_delete2"
    /\ op = "move_object"
    /\ o # "absent"
    /\ StoreCall(<<"delete_object", args.source_key>>, o, "done")

----------------------------------------------------------------------------
(* The call is over; the client is used again *)

Return ==
    /\ pc = "done"
    /\ op' = "idle"
    /\ pc' = "idle"
    /\ args' = [none |-> "None"]
    /\ i' = 0
    /\ batches' = <<>>
    /\ pools' = <<>>
    /\ yielded' = {}
    /\ calls' = <<>>
    /\ log' = <<>>
    /\ storeOps' = <<>>
    /\ outcome' = NoOutcome

Next ==
    \/ \E src \in SourceLists, dst \in DestLists, mw \in WorkerLimits, bs \in BatchSizes :
           Call__copy_many(src, dst, mw, bs)
    \/ \E src \in SourceLists, dst \in DestLists, mw \in WorkerLimits :
           Call_copy_many(src, dst, mw)
    \/ \E keys \in SourceLists, paths \in DestLists, mw \in WorkerLimits :
           Call__download_many(keys, paths, mw)
    \/ \E key \in SrcKeys : Call_key_exist(key)
    \/ \E s \in SrcKeys, d \in DstKeys : Call_move_object(s, d)
    \/ CopyCheck
    \/ CopyLoop
    \/ CopyCollect
    \/ CopyLog
    \/ DownloadCheck
    \/ DownloadCollect
    \/ Submit
    \/ \E p \in DOMAIN pools : StartTask(p)
    \/ \E p \in DOMAIN pools : \E k \in DOMAIN pools[p] : \E o \in ItemOutcomes :
           FinishTask(p, k, o)
    \/ ExecutorExit
    \/ Unwind
    \/ \E o \in StoreOutcomes : _key_exists(o)
    \/ \E o \in StoreOutcomes : MoveCopy(o)
    \/ \E o \in StoreOutcomes : MoveDelete(o)
    \/ \E o \in StoreOutcomes : MoveDeleteAgain(o)
    \/ Return

Spec == Init /\ [][Next]_vars

----------------------------------------------------------------------------
(* Vocabulary of the properties.  These are stated on the arguments of the *)
(* call and on what the call did, not with the operators it is built from. *)

N == Len(args.source_keys)

EqualLengths == Len(args.source_keys) = Len(args.dest_keys)

(* ceil(n / d): the least q with q * d >= n *)
CeilDiv(n, d) == CHOOSE q \in 0..n : q * d >= n /\ \A r \in 0..n : r * d >= n => q <= r

(* the request sequence: the pair (source_keys[j], dest_keys[j]) for each j *)
Requests == [j \in 1..N |-> <<args.source_keys[j], args.dest_keys[j]>>]

RECURSIVE Concat(_)
Concat(ss) == IF ss = <<>> THEN <<>> ELSE Head(ss) \o Concat(Tail(ss))

Count(seq, x) == Cardinality({j \in DOMAIN seq : seq[j] = x})

(* every future of every executor of the call, as (executor, position) *)
Tasks == UNION {{<<p, k>> : k \in DOMAIN pools[p]} : p \in DOMAIN pools}

TaskSt(t) == pools[t[1]][t[2]].st

Executing == {t \in Tasks : TaskSt(t) = "running"}

Finished == pc = "done"

ReturnedNormally == Finished /\ outcome.kind = "returned"

----------------------------------------------------------------------------
(* C1: _copy_many partitions the requests into ceil(N / batch_size)        *)
(* batches; every batch except possibly the last has exactly batch_size    *)
(* items; the batches, concatenated in processing order, are the original  *)
(* sequence of (source_keys[i], dest_keys[i]) pairs.  While the call runs  *)
(* the batches made so far are full and concatenate to a prefix of it.     *)
C1_Partition ==
    (InCopy /\ EqualLengths /\ pc # "check") =>
        /\ \A k \in 1..(Len(batches) - 1) : Len(batches[k]) = args.batch_size
        /\ \A k \in DOMAIN batches : Len(batches[k]) \in 1..args.batch_size
        /\ Len(batches) <= CeilDiv(N, args.batch_size)
        /\ Concat(batches) = SubSeq(Requests, 1, Len(Concat(batches)))
        /\ ReturnedNormally =>
              /\ Len(batches) = CeilDiv(N, args.batch_size)
              /\ Concat(batches) = Requests

(* a finished call with a short last batch *)
C1_Witness ==
    /\ op = "_copy_many"
    /\ ReturnedNormally
    /\ N = 3
    /\ args.batch_size = 2
    /\ Len(batches) = 2
    /\ Len(batches[2]) = 1

(* C2: in _copy_many, once the executor of batch K+1 exists (so before any *)
(* task of batch K+1 is submitted or begins), every task of batch K was    *)
(* submitted and has reached a terminal state, under every interleaving.   *)
C2_BatchesInSequence ==
    InCopy =>
        \A k \in 1..(Len(pools) - 1) :
            /\ Len(pools[k]) = Len(batches[k])
            /\ \A t \in DOMAIN pools[k] : pools[k][t].st \in Terminal

(* a task of the second batch runs after a two-task first batch, one of which failed *)
C2_Witness ==
    /\ op = "_copy_many"
    /\ Len(pools) = 2
    /\ Len(pools[1]) = 2
    /\ args.max_workers = 2
    /\ \E t \in DOMAIN pools[1] : pools[1][t].st = "exc"
    /\ \E t \in DOMAIN pools[2] : pools[2][t].st = "running"

(* C3: in _copy_many and _download_many, at most max_workers per-item      *)
(* tasks execute at any time, counted over every executor of the call.     *)
C3_WorkerLimit ==
    InBatchOp => Cardinality(Executing) <= args.max_workers

(* the limit is reached while a submitted task waits for a thread *)
C3_Witness ==
    /\ InBatchOp
    /\ args.max_workers = 2
    /\ N > args.max_workers
    /\ Cardinality(Executing) = args.max_workers
    /\ \E t \in Tasks : TaskSt(t) = "queued"

(* C4: in _copy_many with equal-length lists, a per-item function that      *)
(* returns False or raises stops nothing: the call always has a next step  *)
(* until it ends, it ends by returning, and by then every request has run  *)
(* to a terminal state and every batch has completed and been reported.    *)
C4_FailureIsolated ==
    (InCopy /\ EqualLengths) =>
        /\ ~Finished => ENABLED Next
        /\ Finished =>
              /\ outcome.kind = "returned"
              /\ Cardinality(Tasks) = N
              /\ \A t \in Tasks : TaskSt(t) \in Terminal
              /\ Len(calls) = N
              /\ Len(log) = CeilDiv(N, args.batch_size)

(* one item raised, one returned False, one succeeded, in two batches *)
C4_Witness ==
    /\ op = "_copy_many"
    /\ ReturnedNormally
    /\ Len(pools) = 2
    /\ \E t \in Tasks : t[1] = 1 /\ TaskSt(t) = "exc"
    /\ \E t \in Tasks : t[1] = 1 /\ TaskSt(t) = "false"
    /\ \E t \in Tasks : t[1] = 2 /\ TaskSt(t) = "ok"

(* C5: with lists of different lengths, _copy_many and _download_many do   *)
(* nothing but raise ValueError: no executor is created, no task is        *)
(* submitted, no per-item function is invoked, no progress line is printed. *)
C5_MismatchAborts ==
    (InBatchOp /\ ~EqualLengths) =>
        /\ pc \in {"check", "done"}
        /\ pools = <<>>
        /\ batches = <<>>
        /\ calls = <<>>
        /\ log = <<>>
        /\ storeOps = <<>>
        /\ Finished => outcome = [kind |-> "raised", value |-> "ValueError"]

(* 3 sources and 2 destinations: the call has raised *)
C5_Witness ==
    /\ InBatchOp
    /\ Len(args.source_keys) = 3
    /\ Len(args.dest_keys) = 2
    /\ Finished
    /\ outcome.kind = "raised"

(* C6: for equal-length lists a batch call (_copy_many, copy_many,         *)
(* _download_many) never raises: it ends by returning.                     *)
C6_BatchNeverRaises ==
    (InBatchOp /\ EqualLengths /\ Finished) => outcome.kind = "returned"

(* C7: key_exist returns True when head_object succeeds, and returns False *)
(* (it does not raise) when head_object fails, whatever the failure.       *)
C7_ExistsNeverRaises ==
    (op = "key_exist" /\ Finished) =>
        /\ outcome.kind = "returned"
        /\ outcome.value = IF storeOps[1][3] = "ok" THEN "True" ELSE "False"

(* C8: a completed _copy_many has invoked the per-item function exactly    *)
(* once for each index i, with the pair (source_keys[i], dest_keys[i]);    *)
(* while it runs, no pair has been invoked more often than it is requested. *)
C8_EachPairOnce ==
    (InCopy /\ EqualLengths) =>
        /\ \A j \in DOMAIN calls : Count(calls, calls[j]) <= Count(Requests, calls[j])
        /\ Finished =>
              /\ Len(calls) = N
              /\ \A j \in 1..N : Count(calls, Requests[j]) = Count(Requests, Requests[j])

(* a/1,a/2,a/3 to b/1,b/2,b/3 with batch_size 2 and 2 workers *)
C8_Witness ==
    /\ op = "_copy_many"
    /\ ReturnedNormally
    /\ args.source_keys = <<"a/1", "a/2", "a/3">>
    /\ args.dest_keys = <<"b/1", "b/2", "b/3">>
    /\ args.batch_size = 2
    /\ args.max_workers = 2
    /\ batches = << <<(<<"a/1", "b/1">>), (<<"a/2", "b/2">>)>>, <<(<<"a/3", "b/3">>)>> >>
    /\ {calls[j] : j \in DOMAIN calls} = {<<"a/1", "b/1">>, <<"a/2", "b/2">>, <<"a/3", "b/3">>}
    /\ Len(calls) = 3

(* C9: the k-th progress line of _copy_many reads X = k and                *)
(* Y = ceil(N / batch_size), and there is one line per drained batch.      *)
C9_ProgressCounts ==
    (InCopy /\ EqualLengths) =>
        /\ Len(log) = IF pc \in {"submit", "collect", "exit", "log"}
                      THEN Len(pools) - 1 ELSE Len(pools)
        /\ \A k \in DOMAIN log : log[k] = <<k, CeilDiv(N, args.batch_size)>>

(* C10: a move_object that returns has issued copy_object(source_key ->    *)
(* dest_key), then delete_object(source_key), and nothing else.            *)
C10_MoveIsCopyThenDelete ==
    (op = "move_object" /\ ReturnedNormally) =>
        /\ Len(storeOps) = 2
        /\ SubSeq(storeOps[1], 1, 3) = <<"copy_object", args.source_key, args.dest_key>>
        /\ SubSeq(storeOps[2], 1, 2) = <<"delete_object", args.source_key>>

====
